---- MODULE Spec2Model ----
(***************************************************************************)
(* Conversation continuation and logging of the `llm` command-line client  *)
(* (src/llm/cli.py): the log store (logs.db, table `log`), get_history,    *)
(* the message list built by `prompt`, the recording done by `log`, and    *)
(* the `init-db` and `logs list` commands.                                 *)
(*                                                                         *)
(* Python's None is the empty tuple and a value v that may be None is the  *)
(* one-element tuple <<v>>, so that an absent chat id and the chat id 0    *)
(* stay different values, as they are in the code.                         *)
(*                                                                         *)
(* A row keeps the columns the history and the message list read (id,      *)
(* chat_id, system, prompt, response); model, timestamp, debug and         *)
(* duration_ms are written by log() and read by nothing modelled here.     *)
(* prompt() is split where it waits for the remote service: the step up to *)
(* the call, one step per streamed chunk, and the step from the call's     *)
(* return (or error) to the end of the command.                            *)
(***************************************************************************)
EXTENDS Integers, Sequences, FiniteSets, TLC

VARIABLES
    exists,   \* log_db_path().exists()
    log,      \* the rows of table `log`, in rowid order
    prov,     \* history variable: for each row, what its invocation resolved and replayed
    inv       \* per process: the command it runs, its locals and what it printed

vars == <<exists, log, prov, inv>>

\* ---------------------------------------------------------------- bounds

MaxWide == 2       \* Spec starts a prompt only while the table has fewer rows
MaxLog == 3        \* SpecExisting starts a prompt only while the table has fewer rows
MaxChunks == 1     \* content chunks one streamed response delivers
NumProcs == 2      \* processes; the sequential specifications run process 1 only
MaxHist == 2       \* rows of the stores SpecBuild starts from
MaxRows == 5       \* rows of the stores SpecLogs starts from

Procs == 1..NumProcs

\* ------------------------------------------------------- Python values

None == << >>
Some(v) == <<v>>

\* bool(x) of an optional int: None and 0 are falsy
TruthyInt(o) == o # None /\ o[1] # 0
\* bool(x) of an optional str: None and "" are falsy
TruthyStr(o) == o # None /\ o[1] # ""

\* `a or b` on optional ints
PyOr(a, b) == IF TruthyInt(a) THEN a ELSE b

Min(a, b) == IF a <= b THEN a ELSE b

\* ------------------------------------------------- sqlite_utils queries

RECURSIVE SortAsc(_)
SortAsc(rows) ==
    IF rows = << >> THEN << >>
    ELSE LET i == CHOOSE i \in 1..Len(rows) :
                      \A j \in 1..Len(rows) : rows[i].id <= rows[j].id
             rest == [k \in 1..(Len(rows) - 1) |->
                          IF k < i THEN rows[k] ELSE rows[k + 1]]
         IN <<rows[i]>> \o SortAsc(rest)

Reverse(s) == [k \in 1..Len(s) |-> s[Len(s) + 1 - k]]

\* order_by="id" / order_by="-id"
OrderBy(rows, desc) == IF desc THEN Reverse(SortAsc(rows)) ELSE SortAsc(rows)

\* limit=None is no LIMIT clause; sqlite reads a negative LIMIT as no limit
Limit(rows, limit) ==
    IF limit = None \/ limit[1] < 0 THEN rows
    ELSE SubSeq(rows, 1, Min(limit[1], Len(rows)))

\* mutant: the where clause without its "id = ?" half
WhereChatOnly(r, c) == r.chat_id = Some(c)

\* the where clause "id = ? or chat_id = ?" with both parameters bound to c
WhereChat(r, c) == r.id = c \/ r.chat_id = Some(c)

\* the rowid sqlite gives an inserted row
NextId(tbl) == Len(tbl) + 1

\* ------------------------------------------------------------ get_history

\* db["log"].rows_where(order_by="-id", limit=1)
LastRow(tbl) == Limit(OrderBy(tbl, TRUE), Some(1))

\* db["log"].rows_where("id = ? or chat_id = ?", [chat_id, chat_id], order_by="id")
ExchangesFor(tbl, c) == OrderBy(SelectSeq(tbl, LAMBDA r : WhereChat(r, c)), FALSE)

\* last_row[0].get("chat_id") or last_row[0].get("id")
MostRecentChat(row) == PyOr(row.chat_id, Some(row.id))

\* mutant: a missing logs.db read as an empty one by --continue
GetHistoryLenient(c, ex, tbl) ==
    IF c = None \/ (~ex /\ c[1] = -1)
    THEN [err |-> FALSE, chat_id |-> None, rows |-> << >>]
    ELSE IF ~ex THEN [err |-> TRUE, chat_id |-> None, rows |-> << >>]
    ELSE IF c[1] = -1 /\ LastRow(tbl) = << >>
         THEN [err |-> FALSE, chat_id |-> None, rows |-> << >>]
    ELSE LET cid == IF c[1] = -1 THEN MostRecentChat(LastRow(tbl)[1]) ELSE c
         IN [err |-> FALSE, chat_id |-> cid, rows |-> ExchangesFor(tbl, cid[1])]

\* get_history(chat_id): err is the ClickException "This feature requires logging"
GetHistory(c, ex, tbl) ==
    IF c = None THEN [err |-> FALSE, chat_id |-> None, rows |-> << >>]
    ELSE IF ~ex THEN [err |-> TRUE, chat_id |-> None, rows |-> << >>]
    ELSE IF c[1] = -1 /\ LastRow(tbl) = << >>
         THEN [err |-> FALSE, chat_id |-> None, rows |-> << >>]
    ELSE LET cid == IF c[1] = -1 THEN MostRecentChat(LastRow(tbl)[1]) ELSE c
         IN [err |-> FALSE, chat_id |-> cid, rows |-> ExchangesFor(tbl, cid[1])]

\* ------------------------------------------------------ message building

Msg(role, content) == [role |-> role, content |-> content]

\* mutant: a history entry's system prompt is not replayed
EntryMessagesNoSystem(entry) ==
    <<Msg("user", entry.prompt), Msg("assistant", entry.response)>>

\* the messages one history entry contributes
EntryMessages(entry) ==
    (IF TruthyStr(entry.system) THEN <<Msg("system", entry.system[1])>> ELSE << >>)
        \o <<Msg("user", entry.prompt), Msg("assistant", entry.response)>>

RECURSIVE HistoryMessages(_)
HistoryMessages(history) ==
    IF history = << >> THEN << >>
    ELSE EntryMessages(Head(history)) \o HistoryMessages(Tail(history))

\* messages as prompt() leaves it before the remote call
BuildMessages(history, system, prompt) ==
    HistoryMessages(history)
        \o (IF TruthyStr(system) THEN <<Msg("system", system[1])>> ELSE << >>)
        \o <<Msg("user", prompt)>>

\* ------------------------------------------------------------------ log

\* mutant: the row is inserted without its chat_id
LogRowNoChat(system, prompt, response, chat_id, tbl) ==
    [id |-> NextId(tbl), chat_id |-> None, system |-> system,
     prompt |-> prompt, response |-> response]

\* the row log() inserts
LogRow(system, prompt, response, chat_id, tbl) ==
    [id |-> NextId(tbl), chat_id |-> chat_id, system |-> system,
     prompt |-> prompt, response |-> response]

\* mutant: log() without its log_path.exists() check
LogNoExistsCheck(no_log, system, prompt, response, chat_id, ex, tbl, ok) ==
    IF no_log THEN [raised |-> FALSE, stored |-> FALSE, log |-> tbl]
    ELSE IF ~ok THEN [raised |-> TRUE, stored |-> FALSE, log |-> tbl]
    ELSE [raised |-> FALSE, stored |-> TRUE,
          log |-> Append(tbl, LogRow(system, prompt, response, chat_id, tbl))]

\* log(no_log, system, prompt, response, model, chat_id, ...): the table afterwards.
\* ok is whether db["log"].insert succeeds; an insert that fails raises
\* (sqlite3.OperationalError), which log() does not catch.
Log(no_log, system, prompt, response, chat_id, ex, tbl, ok) ==
    IF no_log THEN [raised |-> FALSE, stored |-> FALSE, log |-> tbl]
    ELSE IF ~ex THEN [raised |-> FALSE, stored |-> FALSE, log |-> tbl]
    ELSE IF ~ok THEN [raised |-> TRUE, stored |-> FALSE, log |-> tbl]
    ELSE [raised |-> FALSE, stored |-> TRUE,
          log |-> Append(tbl, LogRow(system, prompt, response, chat_id, tbl))]

\* "".join(response)
RECURSIVE Join(_)
Join(chunks) == IF chunks = << >> THEN "" ELSE Head(chunks) \o Join(Tail(chunks))

\* ------------------------------------------------------ process records

Idle0 ==
    [pc |-> "idle", cmd |-> "none", cont |-> FALSE, chat_arg |-> None,
     no_stream |-> FALSE, no_log |-> FALSE, system |-> None, prompt |-> "",
     chat_id |-> None, hist |-> << >>, messages |-> << >>, response |-> << >>,
     count |-> None, out |-> << >>, err |-> "none"]

\* a command that has ended: what it was asked, what it printed, how it ended
Finished(cmd, cont, chat_arg, response, out, err) ==
    [Idle0 EXCEPT !.cmd = cmd, !.cont = cont, !.chat_arg = chat_arg,
                  !.response = response, !.out = out, !.err = err]

Ids(rows) == [k \in 1..Len(rows) |-> rows[k].id]

InFlight == Cardinality({q \in Procs : inv[q].pc = "call"})

\* ---------------------------------------------------------------- prompt

\* -c/--continue and --chat: the value handed to get_history, or the
\* ClickException "Cannot use --continue and --chat together"
Continuation(cont, chat_arg) ==
    IF cont
    THEN IF TruthyInt(chat_arg) THEN [err |-> TRUE, c |-> None]
         ELSE [err |-> FALSE, c |-> Some(-1)]
    ELSE [err |-> FALSE, c |-> chat_arg]

\* prompt() up to the remote call: the process record it leaves. a holds the
\* command line (prompt, system, template, no_stream, no_log, cont, chat_arg),
\* keyOk (get_key finds a key) and tres (what the template resolves to).
PromptResult(a, ex, tbl) ==
    LET fail(e) == Finished("prompt", a.cont, a.chat_arg, << >>, << >>, e)
        prompt1 == IF TruthyStr(a.template) THEN a.tres.prompt ELSE a.prompt
        system1 == IF TruthyStr(a.template) THEN a.tres.system ELSE a.system
        k == Continuation(a.cont, a.chat_arg)
        h == GetHistory(k.c, ex, tbl)
    IN IF ~a.keyOk THEN fail("NoKey")
       ELSE IF TruthyStr(a.template) /\ TruthyStr(a.system) THEN fail("TemplateSystem")
       ELSE IF TruthyStr(a.template) /\ ~a.tres.ok THEN fail("TemplateError")
       ELSE IF k.err THEN fail("ConflictingContinuation")
       ELSE IF h.err THEN fail("LoggingRequired")
       ELSE [Idle0 EXCEPT !.pc = "call", !.cmd = "prompt", !.cont = a.cont,
                          !.chat_arg = a.chat_arg, !.no_stream = a.no_stream,
                          !.no_log = a.no_log, !.system = system1,
                          !.prompt = prompt1, !.chat_id = h.chat_id,
                          !.hist = Ids(h.rows),
                          !.messages = BuildMessages(h.rows, system1, prompt1)]

\* what load_template(name) and template_obj.execute(prompt, params) can give
TemplateResults(I) ==
    {[ok |-> FALSE, prompt |-> "", system |-> None]}
        \cup {[ok |-> TRUE, prompt |-> q, system |-> s] :
                  q \in I.prompts, s \in I.systems}

Prompt(p, I) ==
    /\ inv[p].pc = "idle"
    /\ Len(log) + InFlight < I.maxlog
    /\ \E prompt \in I.prompts, system \in I.systems, template \in I.templates,
          no_stream \in BOOLEAN, no_log \in BOOLEAN, cont \in BOOLEAN,
          chat_arg \in I.chats, keyOk \in BOOLEAN :
          \E tres \in (IF TruthyStr(template) THEN TemplateResults(I)
                       ELSE {[ok |-> TRUE, prompt |-> prompt, system |-> system]}) :
              inv' = [inv EXCEPT ![p] =
                         PromptResult([prompt |-> prompt, system |-> system,
                                       template |-> template, tres |-> tres,
                                       no_stream |-> no_stream, no_log |-> no_log,
                                       cont |-> cont, chat_arg |-> chat_arg,
                                       keyOk |-> keyOk], exists, log)]
    /\ UNCHANGED <<exists, log, prov>>

\* the history variable's entry for a row this invocation records
Provenance(r) ==
    [cont |-> r.cont \/ r.chat_arg # None, chat_id |-> r.chat_id, hist |-> r.hist]

\* no_stream: ChatCompletion.create returns, log(...), print(content)
CallReturns(p, I) ==
    /\ inv[p].pc = "call" /\ inv[p].no_stream
    /\ \E content \in I.responses, ok \in BOOLEAN :
          LET r == inv[p]
              l == Log(r.no_log, r.system, r.prompt, content, r.chat_id,
                       exists, log, ok)
          IN /\ log' = l.log
             /\ prov' = IF l.stored THEN Append(prov, Provenance(r)) ELSE prov
             /\ inv' = [inv EXCEPT ![p] =
                           IF l.raised
                           THEN Finished("prompt", r.cont, r.chat_arg, <<content>>,
                                         << >>, "StoreUnavailable")
                           ELSE Finished("prompt", r.cont, r.chat_arg, <<content>>,
                                         <<content>>, "none")]
    /\ UNCHANGED exists

\* streaming: one chunk arrives; a chunk whose delta has content is kept and printed
RecvChunk(p, I) ==
    /\ inv[p].pc = "call" /\ ~inv[p].no_stream
    /\ \E content \in {None} \cup {Some(c) : c \in I.chunks} :
          IF content # None
          THEN /\ Len(inv[p].response) < MaxChunks
               /\ inv' = [inv EXCEPT ![p].response = Append(@, content[1]),
                                     ![p].out = Append(@, content[1])]
          ELSE inv' = inv
    /\ UNCHANGED <<exists, log, prov>>

\* streaming: the chunks end, print(""), log(...)
StreamEnds(p) ==
    /\ inv[p].pc = "call" /\ ~inv[p].no_stream
    /\ \E ok \in BOOLEAN :
          LET r == inv[p]
              l == Log(r.no_log, r.system, r.prompt, Join(r.response), r.chat_id,
                       exists, log, ok)
          IN /\ log' = l.log
             /\ prov' = IF l.stored THEN Append(prov, Provenance(r)) ELSE prov
             /\ inv' = [inv EXCEPT ![p] =
                           Finished("prompt", r.cont, r.chat_arg, r.response,
                                    Append(r.out, ""),
                                    IF l.raised THEN "StoreUnavailable" ELSE "none")]
    /\ UNCHANGED exists

RemoteErrors == {"AuthenticationError", "OpenAIError"}

\* mutant: what was streamed so far is logged when the call raises
CallFailsLogsPartial(p) ==
    /\ inv[p].pc = "call"
    /\ \E e \in RemoteErrors :
          LET r == inv[p]
              l == Log(r.no_log, r.system, r.prompt, Join(r.response), r.chat_id,
                       exists, log, TRUE)
          IN /\ log' = l.log
             /\ prov' = IF l.stored THEN Append(prov, Provenance(r)) ELSE prov
             /\ inv' = [inv EXCEPT ![p] =
                           Finished("prompt", r.cont, r.chat_arg, r.response, r.out, e)]
    /\ UNCHANGED exists

\* the remote call raises, at once or between two chunks: ClickException
CallFails(p) ==
    /\ inv[p].pc = "call"
    /\ \E e \in RemoteErrors :
          inv' = [inv EXCEPT ![p] =
                     Finished("prompt", inv[p].cont, inv[p].chat_arg,
                              inv[p].response, inv[p].out, e)]
    /\ UNCHANGED <<exists, log, prov>>

\* ----------------------------------------------------- init-db, logs list

InitDb(p) ==
    /\ inv[p].pc = "idle"
    /\ inv' = [inv EXCEPT ![p] = Finished("init-db", FALSE, None, << >>, << >>, "none")]
    /\ IF exists
       THEN UNCHANGED <<exists, log, prov>>
       ELSE exists' = TRUE /\ log' = << >> /\ prov' = << >>

DefaultCount == 3

\* mutant: order_by="id"
RecentOldestFirst(tbl, count) ==
    Limit(OrderBy(tbl, FALSE), IF count # 0 THEN Some(count) ELSE None)

\* rows_where(order_by="-id", limit=count or None)
Recent(tbl, count) ==
    Limit(OrderBy(tbl, TRUE), IF count # 0 THEN Some(count) ELSE None)

\* logs list [-n count]: count is None when -n is not given
LogsList(p, I) ==
    /\ inv[p].pc = "idle"
    /\ \E n \in I.counts :
          LET count == IF n = None THEN DefaultCount ELSE n[1]
          IN inv' = [inv EXCEPT ![p] =
                        IF ~exists
                        THEN [Finished("logs", FALSE, None, << >>, << >>, "NoLogDatabase")
                              EXCEPT !.count = n]
                        ELSE [Finished("logs", FALSE, None, << >>,
                                       Ids(Recent(log, count)), "none")
                              EXCEPT !.count = n]]
    /\ UNCHANGED <<exists, log, prov>>

\* ---------------------------------------------------------- specifications

Init ==
    /\ exists = FALSE
    /\ log = << >>
    /\ prov = << >>
    /\ inv = [p \in Procs |-> Idle0]

OptInts(S) == {None} \cup {Some(i) : i \in S}

\* what the command line can carry: --chat takes any int
Inputs ==
    [prompts |-> {"p"}, systems |-> {None}, templates |-> {None},
     chats |-> OptInts(-1..(MaxWide - 1)), responses |-> {"r"}, chunks |-> {"r"},
     counts |-> {None}, maxlog |-> MaxWide]

Next ==
    \/ Prompt(1, Inputs)
    \/ CallReturns(1, Inputs)
    \/ RecvChunk(1, Inputs)
    \/ StreamEnds(1)
    \/ CallFails(1)
    \/ InitDb(1)

Spec == Init /\ [][Next]_vars

\* --chat given only ids of exchanges the table holds
ExistingInputs == [Inputs EXCEPT !.chats = OptInts(1..Len(log)), !.maxlog = MaxLog]

NextExisting ==
    \/ Prompt(1, ExistingInputs)
    \/ CallReturns(1, ExistingInputs)
    \/ RecvChunk(1, ExistingInputs)
    \/ StreamEnds(1)
    \/ CallFails(1)
    \/ InitDb(1)

SpecExisting == Init /\ [][NextExisting]_vars

\* independent invocations against the same logs.db: each process runs its
\* commands one after the other, and the processes interleave at every step
NextConc ==
    \E p \in Procs :
        \/ Prompt(p, ExistingInputs)
        \/ CallReturns(p, ExistingInputs)
        \/ RecvChunk(p, ExistingInputs)
        \/ StreamEnds(p)
        \/ CallFails(p)
        \/ InitDb(p)

SpecConc == Init /\ [][NextConc]_vars

\* tables of n rows with ids 1..n, as earlier invocations can have left them
Tables(n, chats, systems, prompts, responses) ==
    {t \in [1..n -> [id : 1..n, chat_id : chats, system : systems,
                     prompt : prompts, response : responses]] :
        \A i \in 1..n : t[i].id = i}

UnknownProvenance(t) ==
    [i \in 1..Len(t) |-> [cont |-> FALSE, chat_id |-> None, hist |-> << >>]]

\* the message builder on every history of up to MaxHist exchanges
BuildInputs ==
    [prompts |-> {"p"}, systems |-> {None, Some(""), Some("s")},
     templates |-> {None, Some("t")}, chats |-> OptInts({1}), responses |-> {"r"},
     chunks |-> {"r"}, counts |-> {None}, maxlog |-> MaxHist + 1]

InitBuild ==
    /\ exists = TRUE
    /\ \E n \in 0..MaxHist :
          log \in Tables(n, OptInts({1}), {None, Some(""), Some("t")},
                         {"a", "b"}, {"x"})
    /\ prov = UnknownProvenance(log)
    /\ inv = [p \in Procs |-> Idle0]

NextBuild == Prompt(1, BuildInputs) \/ CallFails(1)

SpecBuild == InitBuild /\ [][NextBuild]_vars

\* logs list on every table of up to MaxRows rows
LogsInputs == [Inputs EXCEPT !.counts = OptInts(0..(MaxRows + 1))]

InitLogs ==
    /\ exists \in BOOLEAN
    /\ \E n \in 0..MaxRows :
          log \in Tables(n, {None}, {None, Some("s")}, {"p"}, {"r"})
    /\ ~exists => log = << >>
    /\ prov = UnknownProvenance(log)
    /\ inv = [p \in Procs |-> Idle0]

NextLogs == LogsList(1, LogsInputs)

SpecLogs == InitLogs /\ [][NextLogs]_vars

\* ------------------------------------------------------------- claims

\* the conversation an exchange belongs to: its chat_id, or its own id without one
ConvId(r) == IF r.chat_id # None THEN r.chat_id[1] ELSE r.id

\* identifiers --chat can name
ChatRange == (-1)..(MaxLog + 1)

\* the rows of the table that X selects, as a set
Selected(X) == {i \in 1..Len(log) : log[i].id = X \/ log[i].chat_id = Some(X)}

ExactlySelected(X) ==
    LET res == ExchangesFor(log, X)
    IN /\ {res[k].id : k \in 1..Len(res)} = Selected(X)
       /\ \A k \in 1..Len(res) : res[k] = log[res[k].id]
       /\ \A k \in 1..(Len(res) - 1) : res[k].id < res[k + 1].id

\* C1 as stated: exchangesFor(X) is the exchange whose id is X and the exchanges
\* recorded with conversation_id X, each once, by ascending id, and none of
\* them belongs to a conversation other than X.
C1_Orig_NoneOfAnotherConversation ==
    \A X \in ChatRange :
        /\ ExactlySelected(X)
        /\ \A k \in 1..Len(ExchangesFor(log, X)) : ConvId(ExchangesFor(log, X)[k]) = X

\* C1 amended: exchangesFor(X) is the exchange whose id is X and the exchanges
\* recorded with conversation_id X, each once, by ascending id, and no other;
\* every returned exchange other than the one whose id is X belongs to
\* conversation X (the one whose id is X is returned whatever its own
\* conversation_id).
C1_ExchangesFor ==
    \A X \in ChatRange :
        /\ ExactlySelected(X)
        /\ \A k \in 1..Len(ExchangesFor(log, X)) :
              ExchangesFor(log, X)[k].id # X => ConvId(ExchangesFor(log, X)[k]) = X

\* an anchor and a follow-up recorded under its id
C1_Witness ==
    /\ Len(log) = 2
    /\ log[1].chat_id = None /\ log[2].chat_id = Some(1)
    /\ Ids(ExchangesFor(log, 1)) = <<1, 2>> /\ Ids(ExchangesFor(log, 2)) = <<2>>

\* the id of the first exchange of conversation c
FirstOf(c) ==
    CHOOSE i \in 1..Len(log) :
        ConvId(log[i]) = c /\ \A j \in 1..Len(log) : ConvId(log[j]) = c => i <= j

StableFor(i) ==
    /\ \A k \in 1..Len(prov[i].hist) : ConvId(log[prov[i].hist[k]]) = ConvId(log[i])
    /\ ConvId(log[i]) = FirstOf(ConvId(log[i]))

\* C2 as stated: every exchange recorded by a continuation carries the
\* conversation identifier of all the exchanges replayed as its history, and
\* that identifier is the id of the conversation's first exchange.
C2_Orig_StableForAnyExistingId ==
    \A i \in 1..Len(log) : prov[i].cont => StableFor(i)

\* the identifier the invocation resolved names an exchange recorded with no
\* conversation_id (or the invocation resolved to a fresh conversation)
ResolvedAnchor(i) ==
    \/ prov[i].chat_id = None
    \/ /\ prov[i].chat_id[1] \in 1..Len(log)
       /\ log[prov[i].chat_id[1]].chat_id = None

\* C2 amended: every exchange recorded by a continuation whose resolved
\* conversation identifier is the id of an anchor exchange carries the
\* conversation identifier of all the exchanges replayed as its history, and
\* that identifier is the id of the conversation's first exchange.
C2_StableConversationId ==
    \A i \in 1..Len(log) : (prov[i].cont /\ ResolvedAnchor(i)) => StableFor(i)

\* a third exchange recorded after replaying the anchor and its follow-up
C2_Witness ==
    /\ Len(log) = 3
    /\ prov[3].cont /\ prov[3].hist = <<1, 2>> /\ log[3].chat_id = Some(1)

\* process p takes a step of a prompt invocation
PromptStep(p) == inv'[p] # inv[p] /\ inv'[p].cmd = "prompt"

\* C3: a step of a prompt invocation that leaves it waiting for the remote call,
\* or that ends it with the remote call's error (at once or after chunks were
\* received), leaves the log store's records and existence as they were.
C3_FailedCallRecordsNothing ==
    [][\A p \in Procs :
          (PromptStep(p) /\ (inv'[p].pc = "call" \/ inv'[p].err \in RemoteErrors))
              => (log' = log /\ exists' = exists)]_vars

\* a streamed call that failed after a chunk, on a store that records
C3_Witness ==
    /\ inv[1].cmd = "prompt" /\ inv[1].pc = "idle"
    /\ inv[1].err \in RemoteErrors /\ inv[1].response # << >>
    /\ exists /\ Len(log) = 1

\* how a prompt invocation ends before the remote call is made
KeyTemplateErrors == {"NoKey", "TemplateSystem", "TemplateError"}
ResolveErrors == {"ConflictingContinuation", "LoggingRequired"}

\* C4 as stated: a prompt invocation whose remote call succeeded ends without
\* an error and with the response printed, whether or not the insert worked.
C4_Orig_RecordFailureNeverAborts ==
    \A p \in Procs :
        (/\ inv[p].cmd = "prompt" /\ inv[p].pc = "idle"
         /\ inv[p].err \notin KeyTemplateErrors \cup ResolveErrors \cup RemoteErrors)
            => (inv[p].err = "none" /\ Join(inv[p].out) = Join(inv[p].response))

\* C5 as stated, for the invocations that get as far as the continuation check
\* (a missing key or a template error ends the invocation before it): with
\* --continue and --chat both given the invocation has ended with
\* ConflictingContinuation, so it is not waiting for a remote call.
C5_Orig_BothAlwaysConflict ==
    \A p \in Procs :
        (/\ inv[p].cmd = "prompt" /\ inv[p].cont /\ inv[p].chat_arg # None
         /\ inv[p].err \notin KeyTemplateErrors)
            => (inv[p].pc = "idle" /\ inv[p].err = "ConflictingContinuation")

\* process p starts a prompt invocation that gets as far as get_history
Resolves(p) ==
    /\ inv[p].pc = "idle" /\ PromptStep(p)
    /\ inv'[p].err \notin KeyTemplateErrors \cup {"ConflictingContinuation"}

FreshConversation(r) ==
    /\ r.pc = "call" /\ r.err = "none"
    /\ r.chat_id = None /\ r.hist = << >>
    /\ Len(r.messages) <= 2

\* C6 as stated: --continue on a log store holding no exchanges resolves to
\* (None, []) without an error, and LoggingRequired is raised only for --chat.
C6_Orig_ContinueNeverRequiresLogging ==
    [][\A p \in Procs :
          Resolves(p) =>
              /\ (inv'[p].cont /\ log = << >>) => FreshConversation(inv'[p])
              /\ inv'[p].err = "LoggingRequired" => ~inv'[p].cont]_vars

\* C6 amended: for an invocation that gets as far as resolving its history,
\* --continue on an existing log store holding no exchanges resolves to
\* (None, []) without an error; when the store does not exist, --continue
\* fails with LoggingRequired just as --chat does, and LoggingRequired is
\* raised in no other case.
C6_ContinueOnEmptyStore ==
    [][\A p \in Procs :
          Resolves(p) =>
              /\ (inv'[p].cont /\ log = << >> /\ exists) => FreshConversation(inv'[p])
              /\ inv'[p].err = "LoggingRequired"
                    <=> (~exists /\ (inv'[p].cont \/ inv'[p].chat_arg # None))]_vars

\* --continue on an initialised, empty store waits for the remote call
C6_Witness ==
    /\ exists /\ log = << >>
    /\ inv[1].pc = "call" /\ inv[1].cont /\ inv[1].chat_id = None

\* C7 as stated: --continue on a non-empty store resolves to the conversation
\* identifier of the exchange with the highest id (its conversation_id when
\* set, otherwise its own id) and replays exchangesFor of that identifier.
C7_Orig_MostRecentConversation ==
    [][\A p \in Procs :
          (Resolves(p) /\ inv'[p].cont /\ exists /\ log # << >>) =>
              /\ inv'[p].chat_id = Some(ConvId(log[Len(log)]))
              /\ {inv'[p].hist[k] : k \in 1..Len(inv'[p].hist)}
                     = Selected(ConvId(log[Len(log)]))]_vars

\* a system prompt that is given and is not the empty string
NonEmpty(o) == o # None /\ o[1] # ""

\* messages a history entry takes, and the messages before entry k
Width(e) == IF NonEmpty(e.system) THEN 3 ELSE 2
Offset(H, k) == 2 * (k - 1) + Cardinality({j \in 1..(k - 1) : NonEmpty(H[j].system)})

\* m is what the claim says the builder makes of history H, system and prompt
BuiltFrom(m, H, system, prompt) ==
    LET n == Len(H)
        end == Offset(H, n + 1)
    IN /\ Len(m) = end + (IF NonEmpty(system) THEN 2 ELSE 1)
       /\ \A k \in 1..n :
             LET o == Offset(H, k)
                 w == Width(H[k])
             IN /\ NonEmpty(H[k].system) => m[o + 1] = Msg("system", H[k].system[1])
                /\ m[o + w - 1] = Msg("user", H[k].prompt)
                /\ m[o + w] = Msg("assistant", H[k].response)
       /\ NonEmpty(system) => m[end + 1] = Msg("system", system[1])
       /\ m[Len(m)] = Msg("user", prompt)
       /\ ((\A k \in 1..n : NonEmpty(H[k].system)) /\ NonEmpty(system))
              => Len(m) = 3 * n + 2

\* C8: the messages sent are, for each replayed exchange by ascending id, a
\* system message iff its system is non-empty, its prompt as user and its
\* response as assistant; then a system message iff the new system is
\* non-empty, then the new prompt as user; 3H + 2 messages when all H replayed
\* exchanges and the new prompt have a system.
C8_MessageBuilder ==
    \A p \in Procs :
        inv[p].pc = "call" =>
            /\ \A k \in 1..(Len(inv[p].hist) - 1) : inv[p].hist[k] < inv[p].hist[k + 1]
            /\ BuiltFrom(inv[p].messages,
                         [k \in 1..Len(inv[p].hist) |-> log[inv[p].hist[k]]],
                         inv[p].system, inv[p].prompt)

\* two replayed exchanges with a system each, a new system: 8 messages
C8_Witness ==
    /\ inv[1].pc = "call" /\ Len(inv[1].hist) = 2
    /\ \A k \in 1..2 : NonEmpty(log[inv[1].hist[k]].system)
    /\ NonEmpty(inv[1].system)
    /\ Len(inv[1].messages) = 8

\* C9: the backing file comes to exist only by init-db, which creates it
\* empty; init-db on an existing store keeps its records; and a prompt whose
\* remote call succeeded with --no-log, or with no backing file, ends without
\* error and leaves the store's existence and records as they were.
C9_RecorderNoOp ==
    [][/\ exists' # exists =>
             /\ ~exists /\ exists' /\ log' = << >>
             /\ \E p \in Procs : inv[p].pc = "idle" /\ inv'[p].cmd = "init-db"
       /\ \A p \in Procs :
             (inv'[p] # inv[p] /\ inv'[p].cmd = "init-db" /\ exists)
                 => (exists' /\ log' = log)
       /\ \A p \in Procs :
             (/\ inv[p].pc = "call" /\ inv'[p].pc = "idle"
              /\ inv'[p].err \notin RemoteErrors
              /\ (inv[p].no_log \/ ~exists))
                 => (log' = log /\ exists' = exists /\ inv'[p].err = "none")]_vars

\* a prompt answered and printed with no backing file, which still does not exist
C9_Witness ==
    /\ ~exists /\ log = << >>
    /\ inv[1].cmd = "prompt" /\ inv[1].pc = "idle"
    /\ inv[1].err = "none" /\ inv[1].out = <<"r">>

\* C10: logs list -n limit prints exchanges by strictly descending id: all of
\* them when limit is 0, otherwise the min(limit, N) with the highest ids; a
\* limit not given is 3.
C10_Recent ==
    \A p \in Procs :
        (inv[p].cmd = "logs" /\ inv[p].err = "none") =>
            LET limit == IF inv[p].count = None THEN 3 ELSE inv[p].count[1]
                out == inv[p].out
                shown == {out[k] : k \in 1..Len(out)}
            IN /\ Len(out) = (IF limit = 0 THEN Len(log) ELSE Min(limit, Len(log)))
               /\ \A k \in 1..(Len(out) - 1) : out[k] > out[k + 1]
               /\ shown \subseteq {log[i].id : i \in 1..Len(log)}
               /\ \A i \in 1..Len(log) :
                     log[i].id \notin shown => \A j \in shown : log[i].id < j

\* five exchanges, no -n: the three newest, newest first
C10_Witness ==
    /\ Len(log) = 5
    /\ inv[1].cmd = "logs" /\ inv[1].count = None
    /\ inv[1].out = <<5, 4, 3>>

\* C11 as stated: every exchange E recorded by a continuation of conversation
\* C was produced from a history that is exactly the exchanges of C (the one
\* whose id is C and those recorded with conversation_id C) with an id smaller
\* than E's, whatever the interleaving of the invocations.
C11_Orig_HistoryComplete ==
    \A i \in 1..Len(log) :
        (prov[i].cont /\ prov[i].chat_id # None) =>
            {prov[i].hist[k] : k \in 1..Len(prov[i].hist)}
                = {j \in Selected(prov[i].chat_id[1]) : j < log[i].id}

====
